---- MODULE Spec2Model ----
(***************************************************************************)
(* Model of cdseutils: the parallel S3 download batch of utils.py          *)
(* (download_s3_file, _download_s3_file_by_tuple, download_s3_files) and   *)
(* the Sentinel-2 path resolution of sentinel2.py (get_s3paths_single_url, *)
(* get_s3paths).  Python strings are sequences of one-character strings,   *)
(* so that split, startswith, "in" and os.path.join are computed as the    *)
(* code computes them.                                                      *)
(***************************************************************************)
EXTENDS Integers, Sequences, FiniteSets, TLC

VARIABLES
    \* ---- download batch (utils.download_s3_files) ----
    s3_paths,            \* argument: list of S3Path (an object id each)
    download_filepaths,  \* argument: list of destination paths
    overwrite,           \* argument
    files,               \* local filesystem: path -> content
    dirs,                \* local filesystem: set of directories
    fs0,                 \* the filesystem when the batch was called
    dl_pc,               \* "call" | "pool" | "returned" | "raised"
    dl_error,            \* exception class raised by download_s3_files, or "None"
    tuples,              \* s3_path_download_filepath_tuples
    work,                \* per tuple: the pool's unit of work
    yielded,             \* indices p.imap has yielded to the caller, in order
    download_successes,  \* the list being built from p.imap
    \* ---- path resolution (sentinel2.get_s3paths) ----
    s3urls,              \* argument: list of root urls
    bands,               \* argument: list of band codes
    satellite,           \* argument
    njobs,               \* argument: size of the pool
    store,               \* the keys of the EODATA bucket
    rs_pc,               \* "call" | "pool" | "returned" | "raised"
    rs_error,            \* exception class raised by get_s3paths, or "None"
    unique_s3urls,       \* list(set(s3urls))
    rwork,               \* per unique url: the pool's unit of work
    ryielded,            \* indices p.imap has yielded to the caller, in order
    list_of_tuple_of_lists,
    rs_result,           \* what get_s3paths returned
    n_invoked,           \* url -> calls of get_s3paths_single_url made for it
    \* ---- identifier and band-filename codec (sentinel2.py 19-115) ----
    cd_id,               \* argument: a product identifier string
    cd_band,             \* argument: a band code
    cd_satellite,        \* argument: the family
    cd_pc,               \* "start" | "parsed" | "encoded" | "decoded" | "reencoded"
    cd_parsed,           \* what sentinel2.sentinel2_id_parser(cd_id) gave
    cd_parsed_utils,     \* what utils.sentinel2_id_parser(cd_id) gave
    cd_filename,         \* what get_band_filename gave
    cd_decoded,          \* what parse_band_filename gave for cd_filename
    cd_again             \* what get_band_filename gave for the decoded band and ext

dlvars == <<s3_paths, download_filepaths, overwrite, files, dirs, fs0, dl_pc,
            dl_error, tuples, work, yielded, download_successes>>

rsvars == <<s3urls, bands, satellite, njobs, store, rs_pc, rs_error, unique_s3urls,
            rwork, ryielded, list_of_tuple_of_lists, rs_result, n_invoked>>

cdvars == <<cd_id, cd_band, cd_satellite, cd_pc, cd_parsed, cd_parsed_utils,
            cd_filename, cd_decoded, cd_again>>

vars == <<dlvars, rsvars, cdvars>>

(***************************************************************************)
(* Bounds of the model.                                                    *)
(***************************************************************************)
MaxItems == 3
MaxUrls == 2
MaxJobs == 2
MaxBatch == 5
MaxDrain == 5

(***************************************************************************)
(* Program constants.                                                      *)
(***************************************************************************)
MAX_CONCURRENT_CONNECTIONS == 4

(***************************************************************************)
(* Python helpers on sequences.                                            *)
(***************************************************************************)
Range(s) == {s[i] : i \in 1..Len(s)}

Min(a, b) == IF a < b THEN a ELSE b

\* list(zip(a, b)): as long as the shorter argument
zip(a, b) == [i \in 1..Min(Len(a), Len(b)) |-> <<a[i], b[i]>>]

\* s.rfind(c) + 1 : one past the last occurrence of c, 0 when there is none
rfind1(s, c) ==
    LET hits == {i \in 1..Len(s) : s[i] = c}
    IN  IF hits = {} THEN 0 ELSE CHOOSE i \in hits : \A j \in hits : j <= i

\* s.rstrip(c)
RECURSIVE rstrip(_, _)
rstrip(s, c) ==
    IF s # <<>> /\ s[Len(s)] = c THEN rstrip(SubSeq(s, 1, Len(s) - 1), c) ELSE s

\* os.path.split(p) (posixpath): <<head, tail>>
os_path_split(p) ==
    LET i    == rfind1(p, "/")
        head == SubSeq(p, 1, i)
        tail == SubSeq(p, i + 1, Len(p))
    IN  IF head # <<>> /\ rstrip(head, "/") # <<>>
        THEN <<rstrip(head, "/"), tail>>
        ELSE <<head, tail>>

\* the directories os.makedirs(name) creates: name and every ancestor of it
RECURSIVE makedirs_dirs(_)
makedirs_dirs(name) ==
    IF name = <<>> THEN {}
    ELSE LET head == os_path_split(name)[1]
         IN  {name} \cup (IF head = name THEN {} ELSE makedirs_dirs(head))

\* os.path.exists(p)
os_path_exists(p, fls, drs) == p \in DOMAIN fls \/ p \in drs

\* os.makedirs(name, exist_ok=True) raises: mkdir('') is FileNotFoundError, a
\* component that is a regular file is FileExistsError / NotADirectoryError
makedirs_raises(name, fls) ==
    name = <<>> \/ \E d \in makedirs_dirs(name) : d \in DOMAIN fls

(***************************************************************************)
(* Python string operations, on sequences of characters.                   *)
(***************************************************************************)
startswith(s, p) == Len(p) <= Len(s) /\ SubSeq(s, 1, Len(p)) = p

endswith(s, p) == Len(p) <= Len(s) /\ SubSeq(s, Len(s) - Len(p) + 1, Len(s)) = p

removeprefix(s, p) == IF startswith(s, p) THEN SubSeq(s, Len(p) + 1, Len(s)) ELSE s

removesuffix(s, p) == IF endswith(s, p) THEN SubSeq(s, 1, Len(s) - Len(p)) ELSE s

\* sub in s
contains(s, sub) ==
    \E i \in 0..(Len(s) - Len(sub)) : SubSeq(s, i + 1, i + Len(sub)) = sub

\* s.split(c), c one character
RECURSIVE split(_, _)
split(s, c) ==
    LET hits == {i \in 1..Len(s) : s[i] = c}
    IN  IF hits = {} THEN <<s>>
        ELSE LET i == CHOOSE h \in hits : \A j \in hits : h <= j
             IN  <<SubSeq(s, 1, i - 1)>> \o split(SubSeq(s, i + 1, Len(s)), c)

\* posixpath.join(a, *parts)
RECURSIVE os_path_join(_, _)
os_path_join(a, parts) ==
    IF parts = <<>> THEN a
    ELSE LET b    == Head(parts)
             path == IF startswith(b, <<"/">>) THEN b
                     ELSE IF a = <<>> \/ endswith(a, <<"/">>) THEN a \o b
                     ELSE a \o <<"/">> \o b
         IN  os_path_join(path, Tail(parts))

\* the result of a call: a value, or the class of the exception it raised
Ok(v) == [ok |-> TRUE, exc |-> "None", val |-> v]

Raise(e) == [ok |-> FALSE, exc |-> e, val |-> <<>>]

\* an optional string: None, or a value
None == [some |-> FALSE, v |-> <<>>]

Some(x) == [some |-> TRUE, v |-> x]

(***************************************************************************)
(* sentinel2.py: module constants                                          *)
(***************************************************************************)
VALID_S3URL_START == <<"s","3",":","/","/","E","O","D","A","T","A","/">>  \* 's3://EODATA/'
VALID_S3URL_END   == <<".","S","A","F","E","/">>                          \* '.SAFE/'
EXT_JP2           == <<".","j","p","2">>                                  \* '.jp2'
EXT_SAFE          == <<".","S","A","F","E">>                              \* '.SAFE'
EXT_XML           == <<".","x","m","l">>                                  \* '.xml'
MTD_TL_XML        == <<"M","T","D","_","T","L",".","x","m","l">>          \* 'MTD_TL.xml'
SUFFIX_20m        == <<"_","2","0","m">>                                  \* '_20m'
SUFFIX_10m        == <<"_","1","0","m">>                                  \* '_10m'
S3_SCHEME         == <<"s","3",":","/","/">>                              \* 's3://'

(***************************************************************************)
(* constants.py: Bands                                                     *)
(***************************************************************************)
S2L1C_NAME == "sentinel-2-l1c"
S2L2A_NAME == "sentinel-2-l2a"
B01 == <<"B","0","1">>
B02 == <<"B","0","2">>
B03 == <<"B","0","3">>
B04 == <<"B","0","4">>
B05 == <<"B","0","5">>
B06 == <<"B","0","6">>
B07 == <<"B","0","7">>
B08 == <<"B","0","8">>
B8A == <<"B","8","A">>
B09 == <<"B","0","9">>
B10 == <<"B","1","0">>
B11 == <<"B","1","1">>
B12 == <<"B","1","2">>
SCL == <<"S","C","L">>
S2L1C_ALL == <<B01, B02, B03, B04, B05, B06, B07, B08, B8A, B09, B10, B11, B12>>
S2L2A_ALL == <<B01, B02, B03, B04, B05, B06, B07, B08, B8A, B09, B11, B12, SCL>>

(***************************************************************************)
(* The S3Path <-> url conversions sentinel2.py calls in utils               *)
(* (utils.s3url_to_s3path, utils.s3path_to_s3url): 's3://bucket/prefix'    *)
(***************************************************************************)
\* the remainder after the scheme, split at its first '/'
s3path_of(rest, bucket) ==
    [bucket |-> bucket, prefix |-> SubSeq(rest, Len(bucket) + 2, Len(rest))]

s3url_to_s3path(s3url) ==
    IF ~startswith(s3url, S3_SCHEME) THEN Raise("ValueError")
    ELSE Ok(s3path_of(removeprefix(s3url, S3_SCHEME),
                      split(removeprefix(s3url, S3_SCHEME), "/")[1]))

s3path_to_s3url(s3path) == S3_SCHEME \o s3path.bucket \o <<"/">> \o s3path.prefix

(***************************************************************************)
(* sentinel2.sentinel2_id_parser                                           *)
(***************************************************************************)
\* lines 24-40: the unpacking of the split, then the dictionary
sentinel2_id_fields(parts) ==
    IF Len(parts) # 7 THEN Raise("ValueError")
    ELSE Ok([mission_identifier         |-> parts[1],
             product_level              |-> parts[2],
             datatake_sensing_startdate |-> parts[3],
             processing_baseline_number |-> parts[4],
             relative_orbit_number      |-> parts[5],
             tile_number_field          |-> parts[6],
             product_discriminator      |-> parts[7]])

sentinel2_id_parser(sentinel2_id) ==
    sentinel2_id_fields(split(removesuffix(sentinel2_id, EXT_SAFE), "_"))

(***************************************************************************)
(* utils.sentinel2_id_parser: the same, but with str.replace               *)
(***************************************************************************)
\* s.replace(old, ''): every occurrence of old is removed, left to right
RECURSIVE str_replace_empty(_, _)
str_replace_empty(s, old) ==
    IF Len(s) < Len(old) THEN s
    ELSE IF startswith(s, old) THEN str_replace_empty(SubSeq(s, Len(old) + 1, Len(s)), old)
    ELSE <<Head(s)>> \o str_replace_empty(Tail(s), old)

utils_sentinel2_id_parser(sentinel2_id) ==
    sentinel2_id_fields(split(str_replace_empty(sentinel2_id, EXT_SAFE), "_"))

(***************************************************************************)
(* sentinel2.parse_s3url                                                   *)
(***************************************************************************)
\* [x for x in slash_splits if ext in x][0]
first_of(c) == IF c = <<>> THEN Raise("IndexError") ELSE Ok(Some(c[1]))

\* [x for x in slash_splits if ext in x][0] if ext in s3url else None
first_with(slash_splits, s3url, ext) ==
    IF ~contains(s3url, ext) THEN Ok(None)
    ELSE first_of(SelectSeq(slash_splits, LAMBDA x : contains(x, ext)))

\* lines 49-53: the dictionary, once its three entries are evaluated in order
parse_s3url_dict(sid, bnd, xml) ==
    IF ~sid.ok THEN sid
    ELSE IF ~bnd.ok THEN bnd
    ELSE IF ~xml.ok THEN xml
    ELSE Ok([id |-> sid.val, band_filename |-> bnd.val, xml_filename |-> xml.val])

\* lines 45-53
parse_s3url_splits(s3url, slash_splits) ==
    parse_s3url_dict(first_with(slash_splits, s3url, EXT_SAFE),
                     first_with(slash_splits, s3url, EXT_JP2),
                     first_with(slash_splits, s3url, EXT_XML))

\* lines 44-53, s3path being what utils.s3url_to_s3path gave
parse_s3url_from(s3url, s3path) ==
    IF ~s3path.ok THEN s3path
    ELSE parse_s3url_splits(s3url, split(s3path.val.prefix, "/"))

parse_s3url(s3url) == parse_s3url_from(s3url, s3url_to_s3path(s3url))

(***************************************************************************)
(* sentinel2.get_band_filename                                             *)
(***************************************************************************)
\* lines 65-75, mutated: SCL is missing from the list
Bands_20m_no_SCL == {B01, B05, B06, B07, B8A, B09, B11, B12}

\* lines 65-75 and 77-82: the bands of the two suffixes
Bands_20m == {B01, B05, B06, B07, B8A, B09, B11, B12, SCL}

Bands_10m == {B02, B03, B04, B08}

\* line 90, parsed_sentinel_id being what sentinel2_id_parser gave (line 87)
band_filename_from(parsed_sentinel_id, band, s2l2a_suffix, ext) ==
    IF ~parsed_sentinel_id.ok THEN parsed_sentinel_id
    ELSE Ok(parsed_sentinel_id.val.tile_number_field \o <<"_">>
            \o parsed_sentinel_id.val.datatake_sensing_startdate \o <<"_">>
            \o band \o s2l2a_suffix \o ext)

get_band_filename(sentinel2_id, band, ext, add_s2l2a_suffix) ==
    IF ~add_s2l2a_suffix
    THEN band_filename_from(sentinel2_id_parser(sentinel2_id), band, <<>>, ext)
    ELSE IF band \in Bands_20m
    THEN band_filename_from(sentinel2_id_parser(sentinel2_id), band, SUFFIX_20m, ext)
    ELSE IF band \in Bands_10m
    THEN band_filename_from(sentinel2_id_parser(sentinel2_id), band, SUFFIX_10m, ext)
    ELSE Raise("NotImplementedError")

(***************************************************************************)
(* sentinel2.parse_band_filename                                           *)
(***************************************************************************)
\* lines 99-115, mutated: the band is taken from the last field
parse_band_filename_fields_last(us, ext, satellite_) ==
    IF satellite_ = S2L1C_NAME /\ Len(us) # 3 THEN Raise("ValueError")
    ELSE IF satellite_ = S2L2A_NAME /\ Len(us) # 4 THEN Raise("ValueError")
    ELSE IF satellite_ \notin {S2L1C_NAME, S2L2A_NAME} THEN Raise("NotImplementedError")
    ELSE Ok([tile_number_field          |-> us[1],
             datatake_sensing_startdate |-> us[2],
             band                       |-> us[Len(us)],
             ext                        |-> <<".">> \o ext])

\* lines 99-115, us being filename.split('_')
parse_band_filename_fields(us, ext, satellite_) ==
    IF satellite_ = S2L1C_NAME /\ Len(us) # 3 THEN Raise("ValueError")
    ELSE IF satellite_ = S2L2A_NAME /\ Len(us) # 4 THEN Raise("ValueError")
    ELSE IF satellite_ \notin {S2L1C_NAME, S2L2A_NAME} THEN Raise("NotImplementedError")
    ELSE Ok([tile_number_field          |-> us[1],
             datatake_sensing_startdate |-> us[2],
             band                       |-> us[3],
             ext                        |-> <<".">> \o ext])

\* lines 97-115, dot being sentinel2_band_filename.split('.')
parse_band_filename_dot(dot, satellite_) ==
    IF Len(dot) # 2 THEN Raise("ValueError")
    ELSE parse_band_filename_fields(split(dot[1], "_"), dot[2], satellite_)

parse_band_filename(sentinel2_band_filename, satellite_) ==
    parse_band_filename_dot(split(sentinel2_band_filename, "."), satellite_)

(***************************************************************************)
(* sentinel2.s3url_to_download_folderpath                                  *)
(***************************************************************************)
s3url_to_download_folderpath(s3url, root_folderpath) ==
    IF ~startswith(s3url, VALID_S3URL_START) THEN Raise("ValueError")
    ELSE IF ~(endswith(s3url, VALID_S3URL_END) \/ endswith(s3url, EXT_SAFE))
         THEN Raise("ValueError")
    ELSE IF endswith(s3url, VALID_S3URL_END)
    THEN Ok(os_path_join(root_folderpath,
              split(removesuffix(removeprefix(s3url, VALID_S3URL_START), VALID_S3URL_END), "/")))
    ELSE Ok(os_path_join(root_folderpath,
              split(removesuffix(removeprefix(s3url, VALID_S3URL_START), EXT_SAFE), "/")))

(***************************************************************************)
(* sentinel2.get_s3paths_single_url, in the two parts the store listing    *)
(* separates: lines 144-188 run before the listing is requested, lines     *)
(* 190-217 consume it.                                                     *)
(***************************************************************************)
\* line 161, mutated: the band check lets every band through
invalid_bands_none(bands_, all_bands) == {}

\* line 161: set(bands) - set(all_bands)
invalid_bands(bands_, all_bands) == Range(bands_) \ Range(all_bands)

\* a list being built: the first failure is what the whole raises
cons_result(h, t) ==
    IF ~h.ok THEN h ELSE IF ~t.ok THEN t ELSE Ok(h.val \o t.val)

one_result(r) == IF ~r.ok THEN r ELSE Ok(<<r.val>>)

\* lines 168-176: the list comprehension over bands
RECURSIVE band_filenames(_, _, _)
band_filenames(sentinel2_id, bands_, add_s2l2a_suffix) ==
    IF bands_ = <<>> THEN Ok(<<>>)
    ELSE cons_result(
           one_result(get_band_filename(sentinel2_id, Head(bands_), EXT_JP2, add_s2l2a_suffix)),
           band_filenames(sentinel2_id, Tail(bands_), add_s2l2a_suffix))

\* lines 178-188, mutated: the metadata file is not appended
prepare_listing_no_metadata(fns, root_s3path) ==
    IF ~fns.ok THEN fns
    ELSE IF ~root_s3path.ok THEN root_s3path
    ELSE Ok([filenames_to_download |-> fns.val, root_s3path |-> root_s3path.val])

\* lines 178-188: the metadata file is appended, then the root S3Path is made
prepare_listing(fns, root_s3path) ==
    IF ~fns.ok THEN fns
    ELSE IF ~root_s3path.ok THEN root_s3path
    ELSE Ok([filenames_to_download |-> fns.val \o <<MTD_TL_XML>>,
             root_s3path |-> root_s3path.val])

\* lines 166-188, parsed being parse_s3url(s3url)
prepare_filenames(s3url, bands_, add_s2l2a_suffix, parsed) ==
    IF ~parsed.ok THEN parsed
    ELSE IF ~parsed.val.id.some THEN Raise("AttributeError")
    ELSE prepare_listing(band_filenames(parsed.val.id.v, bands_, add_s2l2a_suffix),
                         s3url_to_s3path(s3url))

\* lines 161-188, once the satellite has given all_bands and add_s2l2a_suffix
prepare_bands(s3url, bands_, all_bands, add_s2l2a_suffix) ==
    IF invalid_bands(bands_, all_bands) # {} THEN Raise("ValueError")
    ELSE prepare_filenames(s3url, bands_, add_s2l2a_suffix, parse_s3url(s3url))

\* lines 144-188: Ok(what the listing and the rest of the call need) or Raise
get_s3paths_single_url_prepare(s3url, bands_, satellite_) ==
    IF ~startswith(s3url, VALID_S3URL_START) THEN Raise("ValueError")
    ELSE IF ~(endswith(s3url, VALID_S3URL_END) \/ endswith(s3url, EXT_SAFE))
         THEN Raise("ValueError")
    ELSE IF satellite_ = S2L1C_NAME THEN prepare_bands(s3url, bands_, S2L1C_ALL, FALSE)
    ELSE IF satellite_ = S2L2A_NAME THEN prepare_bands(s3url, bands_, S2L2A_ALL, TRUE)
    ELSE Raise("NotImplementedError")

\* lines 191-194: the listed objects whose key contains an expected filename
keep_files(all_files, filenames_to_download) ==
    SelectSeq(all_files,
              LAMBDA file : \E file_to_download \in Range(filenames_to_download) :
                               contains(file.prefix, file_to_download))

\* lines 206-212, mutated: the band file goes to a folder of its band
band_download_filepath_nested(download_folderpath, parsed_band_filename) ==
    IF ~parsed_band_filename.ok THEN parsed_band_filename
    ELSE Ok(<<os_path_join(download_folderpath,
                <<parsed_band_filename.val.band,
                  parsed_band_filename.val.band \o parsed_band_filename.val.ext>>)>>)

\* lines 206-212: the destination of a band file
band_download_filepath(download_folderpath, parsed_band_filename) ==
    IF ~parsed_band_filename.ok THEN parsed_band_filename
    ELSE Ok(<<os_path_join(download_folderpath,
                <<parsed_band_filename.val.band \o parsed_band_filename.val.ext>>)>>)

\* lines 204-215, mutated: the metadata branch is missing
download_filepath_from_no_xml(s3path, download_folderpath, satellite_, parsed_s3path) ==
    IF ~parsed_s3path.ok THEN parsed_s3path
    ELSE IF contains(s3path.prefix, EXT_JP2)
    THEN band_download_filepath(download_folderpath,
             parse_band_filename(parsed_s3path.val.band_filename.v, satellite_))
    ELSE Ok(<<>>)

\* lines 204-215: what one kept s3path appends to download_filepaths,
\* parsed_s3path being what line 203 gave
download_filepath_from(s3path, download_folderpath, satellite_, parsed_s3path) ==
    IF ~parsed_s3path.ok THEN parsed_s3path
    ELSE IF contains(s3path.prefix, EXT_JP2)
    THEN band_download_filepath(download_folderpath,
             parse_band_filename(parsed_s3path.val.band_filename.v, satellite_))
    ELSE IF contains(s3path.prefix, EXT_XML)
    THEN Ok(<<os_path_join(download_folderpath, <<parsed_s3path.val.xml_filename.v>>)>>)
    ELSE Ok(<<>>)

\* lines 203-215
download_filepath_of(s3path, download_folderpath, satellite_) ==
    download_filepath_from(s3path, download_folderpath, satellite_,
                           parse_s3url(s3path_to_s3url(s3path)))

\* lines 201-215: the loop over s3paths
RECURSIVE download_filepaths_of(_, _, _)
download_filepaths_of(s3paths, download_folderpath, satellite_) ==
    IF s3paths = <<>> THEN Ok(<<>>)
    ELSE cons_result(
           download_filepath_of(Head(s3paths), download_folderpath, satellite_),
           download_filepaths_of(Tail(s3paths), download_folderpath, satellite_))

\* line 217
resolved(s3paths, download_filepaths_) ==
    IF ~download_filepaths_.ok THEN download_filepaths_
    ELSE Ok([s3paths |-> s3paths, download_filepaths |-> download_filepaths_.val])

\* lines 196-217, s3paths being the kept objects
collect_into(s3paths, download_folderpath, satellite_) ==
    IF ~download_folderpath.ok THEN download_folderpath
    ELSE resolved(s3paths,
                  download_filepaths_of(s3paths, download_folderpath.val, satellite_))

\* lines 190-217: Ok([s3paths, download_filepaths]) or Raise
get_s3paths_single_url_collect(s3url, root_folderpath, satellite_, filenames_to_download, all_files) ==
    collect_into(keep_files(all_files, filenames_to_download),
                 s3url_to_download_folderpath(s3url, root_folderpath),
                 satellite_)

(***************************************************************************)
(* The inputs of a batch.                                                  *)
(***************************************************************************)
Dest_da == <<"d","/","a">>     \* 'd/a'
Dest_db == <<"d","/","b">>     \* 'd/b'
Dest_a  == <<"a">>             \* 'a' : a bare file name, no folder part

Dests == {Dest_da, Dest_db, Dest_a}

\* the i-th S3Path of a batch: every item names an object of its own
S3Path(i) == i

\* the filesystems a batch may find: empty, or 'd/a' already downloaded (it holds
\* object 0, which no item of the batch names)
Filesystems ==
    { [files |-> <<>>, dirs |-> {}],
      [files |-> (Dest_da :> 0), dirs |-> {<<"d">>}] }

SeqsUpTo(S, n) == UNION {[1..k -> S] : k \in 0..n}

(***************************************************************************)
(* utils.download_s3_file, lines 286: transfer unless present and kept     *)
(***************************************************************************)
should_transfer_always(file_exists, ow) == TRUE

should_transfer(file_exists, ow) == (~file_exists) \/ ow

(***************************************************************************)
(* utils._download_s3_file_by_tuple: the try/except around download_s3_file*)
(* exc is the class of the exception download_s3_file raised ("None" when  *)
(* it returned), exists_after is os.path.exists(download_filepath).        *)
(***************************************************************************)
download_s3_file_by_tuple_noexcept(exc, exists_after) ==
    IF exc # "None"
    THEN [kind |-> "raise", value |-> FALSE, exc |-> exc]
    ELSE [kind |-> "return", value |-> exists_after, exc |-> "None"]

download_s3_file_by_tuple_true(exc, exists_after) ==
    [kind |-> "return", value |-> TRUE, exc |-> "None"]

\* line 329, mutated: except OSError only
download_s3_file_by_tuple_oserror_only(exc, exists_after) ==
    IF exc = "OSError"
    THEN [kind |-> "return", value |-> FALSE, exc |-> "None"]
    ELSE IF exc # "None"
    THEN [kind |-> "raise", value |-> FALSE, exc |-> exc]
    ELSE [kind |-> "return", value |-> exists_after, exc |-> "None"]

download_s3_file_by_tuple(exc, exists_after) ==
    IF exc # "None"
    THEN [kind |-> "return", value |-> FALSE, exc |-> "None"]
    ELSE [kind |-> "return", value |-> exists_after, exc |-> "None"]

\* utils.download_s3_files, line 347
lengths_differ_never(a, b) == FALSE

lengths_differ(a, b) == Len(a) # Len(b)

(***************************************************************************)
(* multiprocessing.Pool.imap: results are yielded in task order            *)
(***************************************************************************)
imap_ready_unordered(ylded, done) == done \ Range(ylded)

imap_ready(ylded, done) ==
    IF (Len(ylded) + 1) \in done THEN {Len(ylded) + 1} ELSE {}

NoRet == [kind |-> "none", value |-> FALSE, exc |-> "None"]

NewWork == [pc |-> "queued", file_exists |-> FALSE, exc |-> "None",
            transfers |-> 0, ret |-> NoRet]

DlInit ==
    /\ \E n \in 0..MaxItems :
         /\ s3_paths = [i \in 1..n |-> S3Path(i)]
         /\ \/ download_filepaths \in [1..n -> Dests]
            \/ /\ n > 0
               /\ download_filepaths \in [1..(n - 1) -> Dests]
    /\ overwrite \in BOOLEAN
    /\ \E fs \in Filesystems : files = fs.files /\ dirs = fs.dirs /\ fs0 = fs
    /\ dl_pc = "call"
    /\ dl_error = "None"
    /\ tuples = <<>>
    /\ work = <<>>
    /\ yielded = <<>>
    /\ download_successes = <<>>

\* download_s3_files, lines 347-356: the length check, then the tuples
download_s3_files_call ==
    /\ dl_pc = "call"
    /\ IF lengths_differ(s3_paths, download_filepaths)
       THEN /\ dl_pc' = "raised"
            /\ dl_error' = "ValueError"
            /\ UNCHANGED <<tuples, work>>
       ELSE /\ dl_pc' = "pool"
            /\ tuples' = zip(s3_paths, download_filepaths)
            /\ work' = [i \in 1..Min(Len(s3_paths), Len(download_filepaths)) |-> NewWork]
            /\ UNCHANGED dl_error
    /\ UNCHANGED <<s3_paths, download_filepaths, overwrite, files, dirs, fs0,
                   yielded, download_successes>>
    /\ UNCHANGED <<rsvars, cdvars>>

\* the tasks a worker process of the pool is running: taken from the task
\* queue and not yet ended
InProgress == {i \in 1..Len(work) : work[i].pc \in {"taken", "makedirs", "transfer"}}

\* line 358, mutated: a process is started for every task
pool_has_idle_worker_always(in_progress, processes) == TRUE

\* mp.Pool(processes) (line 358): a task is taken only by a worker process
\* that runs no task, and there are `processes` of them
pool_has_idle_worker(in_progress, processes) == Cardinality(in_progress) < processes

\* A worker process that runs no task takes tuple i from the pool's task queue
\* (the queue hands the tasks out in order, line 360)
WorkerTake(i) ==
    /\ dl_pc = "pool"
    /\ i \in 1..Len(work)
    /\ work[i].pc = "queued"
    /\ \A j \in 1..(i - 1) : work[j].pc # "queued"
    /\ pool_has_idle_worker(InProgress, MAX_CONCURRENT_CONNECTIONS)
    /\ work' = [work EXCEPT ![i].pc = "taken"]
    /\ UNCHANGED <<s3_paths, download_filepaths, overwrite, files, dirs, fs0, dl_pc,
                   dl_error, tuples, yielded, download_successes>>
    /\ UNCHANGED <<rsvars, cdvars>>

\* download_s3_file in the worker's process, lines 273-275: the folder of the
\* destination is made (os.makedirs raises when it cannot be)
WorkerMakedirs(i) ==
    /\ dl_pc = "pool"
    /\ i \in 1..Len(work)
    /\ work[i].pc = "taken"
    /\ \E download_folderpath \in {os_path_split(tuples[i][2])[1]} :
       \E raises \in {makedirs_raises(download_folderpath, files)} :
           IF raises
           THEN /\ work' = [work EXCEPT ![i].pc = "done",
                                        ![i].exc = "OSError",
                                        ![i].ret = download_s3_file_by_tuple("OSError", FALSE)]
                /\ UNCHANGED dirs
           ELSE /\ dirs' = dirs \cup makedirs_dirs(download_folderpath)
                /\ work' = [work EXCEPT ![i].pc = "makedirs"]
    /\ UNCHANGED <<s3_paths, download_filepaths, overwrite, files, fs0, dl_pc,
                   dl_error, tuples, yielded, download_successes>>
    /\ UNCHANGED <<rsvars, cdvars>>

\* download_s3_file, lines 277 and 286: os.path.exists of the destination, as
\* the filesystem is at that moment, decides whether the file is transferred;
\* when it is not, the call returns and line 321 finds the file again
WorkerExists(i) ==
    /\ dl_pc = "pool"
    /\ i \in 1..Len(work)
    /\ work[i].pc = "makedirs"
    /\ \E download_filepath \in {tuples[i][2]} :
       \E file_exists \in {os_path_exists(download_filepath, files, dirs)} :
           IF should_transfer(file_exists, overwrite)
           THEN work' = [work EXCEPT ![i].pc = "transfer",
                                     ![i].file_exists = file_exists]
           ELSE work' = [work EXCEPT
                    ![i].pc = "done",
                    ![i].file_exists = file_exists,
                    ![i].ret = download_s3_file_by_tuple("None",
                                 os_path_exists(download_filepath, files, dirs))]
    /\ UNCHANGED <<s3_paths, download_filepaths, overwrite, files, dirs, fs0, dl_pc,
                   dl_error, tuples, yielded, download_successes>>
    /\ UNCHANGED <<rsvars, cdvars>>

\* line 299, mutated: a destination that exists is not written again
download_file_keep_existing(fls, s3_path, download_filepath) ==
    [p \in DOMAIN fls \cup {download_filepath} |->
        IF p \in DOMAIN fls THEN fls[p] ELSE s3_path]

\* bucket.download_file(s3_path.prefix, download_filepath) that succeeds: the
\* destination holds the object, whatever it held before
download_file(fls, s3_path, download_filepath) ==
    [p \in DOMAIN fls \cup {download_filepath} |->
        IF p = download_filepath THEN s3_path ELSE fls[p]]

\* bucket.download_file (line 299) ends: the object is written to the
\* destination, or the transfer raises and the destination is left as it was
WorkerTransfer(i) ==
    /\ dl_pc = "pool"
    /\ i \in 1..Len(work)
    /\ work[i].pc = "transfer"
    /\ \E ok \in BOOLEAN :
       \E download_filepath \in {tuples[i][2]} :
       \E files2 \in {IF ok THEN download_file(files, tuples[i][1], download_filepath)
                             ELSE files} :
       \E exc \in {IF ok THEN "None" ELSE "ClientError"} :
             /\ files' = files2
             /\ work' = [work EXCEPT
                   ![i].pc = "done",
                   ![i].exc = exc,
                   ![i].transfers = @ + 1,
                   ![i].ret = download_s3_file_by_tuple(exc,
                                 os_path_exists(download_filepath, files2, dirs))]
    /\ UNCHANGED <<s3_paths, download_filepaths, overwrite, dirs, fs0, dl_pc,
                   dl_error, tuples, yielded, download_successes>>
    /\ UNCHANGED <<rsvars, cdvars>>

Done == {i \in 1..Len(work) : work[i].pc = "done"}

\* list(p.imap(...)) takes the next result; a unit of work that raised makes
\* the iterator raise in the caller, and leaving the with block ends the pool
ImapYield ==
    /\ dl_pc = "pool"
    /\ \E k \in imap_ready(yielded, Done) :
         /\ yielded' = Append(yielded, k)
         /\ IF work[k].ret.kind = "raise"
            THEN /\ dl_pc' = "raised"
                 /\ dl_error' = work[k].ret.exc
                 /\ UNCHANGED download_successes
            ELSE /\ download_successes' = Append(download_successes, work[k].ret.value)
                 /\ UNCHANGED <<dl_pc, dl_error>>
    /\ UNCHANGED <<s3_paths, download_filepaths, overwrite, files, dirs, fs0,
                   tuples, work>>
    /\ UNCHANGED <<rsvars, cdvars>>

\* download_s3_files, lines 364-366
download_s3_files_return ==
    /\ dl_pc = "pool"
    /\ Len(yielded) = Len(tuples)
    /\ dl_pc' = "returned"
    /\ UNCHANGED <<s3_paths, download_filepaths, overwrite, files, dirs, fs0,
                   dl_error, tuples, work, yielded, download_successes>>
    /\ UNCHANGED <<rsvars, cdvars>>

DlNext ==
    \/ download_s3_files_call
    \/ \E i \in 1..Len(work) : WorkerTake(i)
    \/ \E i \in 1..Len(work) : WorkerMakedirs(i)
    \/ \E i \in 1..Len(work) : WorkerExists(i)
    \/ \E i \in 1..Len(work) : WorkerTransfer(i)
    \/ ImapYield
    \/ download_s3_files_return

(***************************************************************************)
(* The inputs of a resolution: root urls, band lists, and the bucket.      *)
(***************************************************************************)
ROOT_FOLDERPATH == <<"r">>                                   \* 'r'
P_DIR  == <<"p","/">>                                        \* 'p/'
ID1    == <<"S","_","L","_","D","_","N","_","R","_","T","_","X">>   \* 'S_L_D_N_R_T_X'
ID2    == <<"S","_","L","_","E","_","N","_","R","_","V","_","X">>   \* 'S_L_E_N_R_V_X'

Url1   == VALID_S3URL_START \o P_DIR \o ID1 \o VALID_S3URL_END  \* 's3://EODATA/p/S_L_D_N_R_T_X.SAFE/'
Url2   == VALID_S3URL_START \o P_DIR \o ID2 \o EXT_SAFE         \* 's3://EODATA/p/S_L_E_N_R_V_X.SAFE'
UrlBad == VALID_S3URL_START \o <<"p","/","x">>                  \* 's3://EODATA/p/x'

Urls == {Url1, Url2, UrlBad}

BandLists == {<<>>, <<B02, B03>>, <<B02, B10>>, <<SCL, B02>>}

Satellites == {S2L1C_NAME, S2L2A_NAME, "landsat-8"}

Prefix1 == P_DIR \o ID1 \o VALID_S3URL_END                   \* 'p/S_L_D_N_R_T_X.SAFE/'
Prefix2 == P_DIR \o ID2 \o VALID_S3URL_END                   \* 'p/S_L_E_N_R_V_X.SAFE/'

Key1_MSI     == Prefix1 \o <<"M","T","D","_","M","S","I","L","1","C",".","x","m","l">>
Key1_MTD_g   == Prefix1 \o <<"g","/","M","T","D","_","T","L",".","x","m","l">>
Key1_B02     == Prefix1 \o <<"g","/","T","_","D","_","B","0","2",".","j","p","2">>
Key1_B02_aux == Prefix1 \o <<"g","/","T","_","D","_","B","0","2",".","j","p","2",".","a","u","x">>
Key1_B02_10m == Prefix1 \o <<"g","/","T","_","D","_","B","0","2","_","1","0","m",".","j","p","2">>
Key1_B03     == Prefix1 \o <<"g","/","T","_","D","_","B","0","3",".","j","p","2">>
Key1_MTD_h   == Prefix1 \o <<"h","/","M","T","D","_","T","L",".","x","m","l">>
Key1_XB03    == Prefix1 \o <<"q","/","X","T","_","D","_","B","0","3",".","j","p","2">>
Key2_B02     == Prefix2 \o <<"g","/","V","_","E","_","B","0","2",".","j","p","2">>

\* every key a bucket of the model may hold, in the order a listing returns them
StoreKeys == <<Key1_MSI, Key1_MTD_g, Key1_B02, Key1_B02_aux, Key1_B02_10m, Key1_B03,
               Key1_MTD_h, Key1_XB03, Key2_B02>>

\* the buckets of the model: product 1 has one or two MTD_TL.xml, a key whose
\* name only contains a band filename, and may hold a sidecar of a band file;
\* product 2 has one band file and no metadata
Stores ==
    { {Key1_MSI, Key1_MTD_g, Key1_B02, Key1_B02_10m, Key1_B03, Key1_XB03, Key2_B02} \cup S :
        S \in SUBSET {Key1_MTD_h, Key1_B02_aux} }

\* s3.Bucket(bucket).objects.filter(Prefix=prefix): the objects as S3Path values
objects_filter(store_, bucket, prefix) ==
    LET ks == SelectSeq(StoreKeys, LAMBDA k : k \in store_ /\ startswith(k, prefix))
    IN  [i \in 1..Len(ks) |-> [bucket |-> bucket, prefix |-> ks[i]]]

\* the orders list(set(s3urls)) may have: each distinct value once
unique_orders_keep_duplicates(urls) == {urls}

unique_orders(urls) ==
    LET S == Range(urls)
    IN  {f \in [1..Cardinality(S) -> S] : \A i, j \in 1..Cardinality(S) : f[i] = f[j] => i = j}

\* what the loop of get_s3paths does with one result of p.imap: when isolate_errors
\* replaces it, a failed resolution is dropped instead of raised
EmptyPair == [s3paths |-> <<>>, download_filepaths |-> <<>>]

imap_result_isolate_errors(ret) ==
    [raise |-> FALSE, exc |-> "None", item |-> IF ret.ok THEN ret.val ELSE EmptyPair]

imap_result(ret) ==
    [raise |-> ~ret.ok, exc |-> ret.exc, item |-> IF ret.ok THEN ret.val ELSE EmptyPair]

\* get_s3paths, lines 255-259
RECURSIVE flatten(_)
flatten(l) ==
    IF l = <<>> THEN EmptyPair
    ELSE LET t == flatten(Tail(l))
         IN  [s3paths |-> Head(l).s3paths \o t.s3paths,
              download_filepaths |-> Head(l).download_filepaths \o t.download_filepaths]

NoResult == [some |-> FALSE, s3paths |-> <<>>, download_filepaths |-> <<>>]

NewRWork == [pc |-> "queued", filenames |-> <<>>, list_calls |-> 0, ret |-> Raise("None")]

RsInit ==
    /\ s3urls \in SeqsUpTo(Urls, MaxUrls)
    /\ bands \in BandLists
    /\ satellite \in Satellites
    /\ njobs \in 1..MaxJobs
    /\ store \in Stores
    /\ rs_pc = "call"
    /\ rs_error = "None"
    /\ unique_s3urls = <<>>
    /\ rwork = <<>>
    /\ ryielded = <<>>
    /\ list_of_tuple_of_lists = <<>>
    /\ rs_result = NoResult
    /\ n_invoked = [u \in Urls |-> 0]

\* get_s3paths, line 247
get_s3paths_call ==
    /\ rs_pc = "call"
    /\ \E u \in unique_orders(s3urls) :
         /\ unique_s3urls' = u
         /\ rwork' = [t \in 1..Len(u) |-> NewRWork]
    /\ rs_pc' = "pool"
    /\ UNCHANGED <<s3urls, bands, satellite, njobs, store, rs_error, ryielded,
                   list_of_tuple_of_lists, rs_result, n_invoked>>
    /\ UNCHANGED <<dlvars, cdvars>>

\* the tasks a worker process of the pool is running
Listing == {t \in 1..Len(rwork) : rwork[t].pc \in {"taken", "listing"}}

\* A worker process that runs no task takes url t from the pool's task queue
\* (the queue hands the tasks out in order, line 251)
ResolveTake(t) ==
    /\ rs_pc = "pool"
    /\ t \in 1..Len(rwork)
    /\ rwork[t].pc = "queued"
    /\ \A j \in 1..(t - 1) : rwork[j].pc # "queued"
    /\ Cardinality(Listing) < njobs
    /\ rwork' = [rwork EXCEPT ![t].pc = "taken"]
    /\ UNCHANGED <<s3urls, bands, satellite, njobs, store, rs_pc, rs_error,
                   unique_s3urls, ryielded, list_of_tuple_of_lists, rs_result, n_invoked>>
    /\ UNCHANGED <<dlvars, cdvars>>

\* the worker's process invokes get_s3paths_single_url for url t and runs it up
\* to the listing
ResolveStart(t) ==
    /\ rs_pc = "pool"
    /\ t \in 1..Len(rwork)
    /\ rwork[t].pc = "taken"
    /\ n_invoked' = [n_invoked EXCEPT ![unique_s3urls[t]] = @ + 1]
    /\ LET prep == get_s3paths_single_url_prepare(unique_s3urls[t], bands, satellite)
       IN  IF ~prep.ok
           THEN rwork' = [rwork EXCEPT ![t].pc = "done", ![t].ret = prep]
           ELSE rwork' = [rwork EXCEPT ![t].pc = "listing",
                                       ![t].filenames = prep.val.filenames_to_download,
                                       ![t].list_calls = @ + 1]
    /\ UNCHANGED <<s3urls, bands, satellite, njobs, store, rs_pc, rs_error,
                   unique_s3urls, ryielded, list_of_tuple_of_lists, rs_result>>
    /\ UNCHANGED <<dlvars, cdvars>>

\* the listing arrives (or the request fails) and the call runs to its end
ResolveFinish(t) ==
    /\ rs_pc = "pool"
    /\ t \in 1..Len(rwork)
    /\ rwork[t].pc = "listing"
    /\ \E listed \in BOOLEAN :
         LET s3url == unique_s3urls[t]
             root_s3path == s3url_to_s3path(s3url).val
             all_files == objects_filter(store, root_s3path.bucket, root_s3path.prefix)
             ret == IF listed
                    THEN get_s3paths_single_url_collect(s3url, ROOT_FOLDERPATH, satellite,
                                                        rwork[t].filenames, all_files)
                    ELSE Raise("ClientError")
         IN  rwork' = [rwork EXCEPT ![t].pc = "done", ![t].ret = ret]
    /\ UNCHANGED <<s3urls, bands, satellite, njobs, store, rs_pc, rs_error,
                   unique_s3urls, ryielded, list_of_tuple_of_lists, rs_result, n_invoked>>
    /\ UNCHANGED <<dlvars, cdvars>>

RDone == {t \in 1..Len(rwork) : rwork[t].pc = "done"}

\* list(p.imap(...)) takes the next result, or raises what the worker raised
ResolveImapYield ==
    /\ rs_pc = "pool"
    /\ \E k \in imap_ready(ryielded, RDone) :
         LET r == imap_result(rwork[k].ret)
         IN  /\ ryielded' = Append(ryielded, k)
             /\ IF r.raise
                THEN /\ rs_pc' = "raised"
                     /\ rs_error' = r.exc
                     /\ UNCHANGED list_of_tuple_of_lists
                ELSE /\ list_of_tuple_of_lists' = Append(list_of_tuple_of_lists, r.item)
                     /\ UNCHANGED <<rs_pc, rs_error>>
    /\ UNCHANGED <<s3urls, bands, satellite, njobs, store, unique_s3urls, rwork,
                   rs_result, n_invoked>>
    /\ UNCHANGED <<dlvars, cdvars>>

\* get_s3paths, lines 255-261
get_s3paths_return ==
    /\ rs_pc = "pool"
    /\ Len(ryielded) = Len(unique_s3urls)
    /\ rs_pc' = "returned"
    /\ rs_result' = [some |-> TRUE,
                     s3paths |-> flatten(list_of_tuple_of_lists).s3paths,
                     download_filepaths |-> flatten(list_of_tuple_of_lists).download_filepaths]
    /\ UNCHANGED <<s3urls, bands, satellite, njobs, store, rs_error, unique_s3urls,
                   rwork, ryielded, list_of_tuple_of_lists, n_invoked>>
    /\ UNCHANGED <<dlvars, cdvars>>

RsNext ==
    \/ get_s3paths_call
    \/ \E t \in 1..MaxUrls : ResolveTake(t)
    \/ \E t \in 1..MaxUrls : ResolveStart(t)
    \/ \E t \in 1..MaxUrls : ResolveFinish(t)
    \/ ResolveImapYield
    \/ get_s3paths_return

\* neither batch is running
(***************************************************************************)
(* The codec: an identifier is parsed, a band filename is made from it,    *)
(* parsed back, and made again from what the parsing gave.                 *)
(***************************************************************************)
ID_SAFE   == ID1 \o EXT_SAFE                     \* 'S_L_D_N_R_T_X.SAFE'
ID_6      == <<"S","_","L","_","D","_","N","_","R","_","T">>    \* six fields
ID_8      == ID1 \o <<"_","Y">>                  \* eight fields
ID_dot    == <<"S","_","L","_","D","_","N","_","R","_","T",".","1","_","X">>   \* 'S_L_D_N_R_T.1_X'
ID_inner  == <<"S","_","L","_","D","_","N","_","R","_","T",".","S","A","F","E","_","X",".","S","A","F","E">>

CodecIds == {ID1, ID_SAFE, ID_6, ID_8, ID_dot, ID_inner, <<>>}

CodecBands == Range(S2L1C_ALL) \cup Range(S2L2A_ALL)

NotYet == Raise("None")

CdInit ==
    /\ cd_id \in CodecIds
    /\ cd_band \in CodecBands
    /\ cd_satellite \in Satellites
    /\ cd_pc = "start"
    /\ cd_parsed = NotYet /\ cd_parsed_utils = NotYet
    /\ cd_filename = NotYet /\ cd_decoded = NotYet /\ cd_again = NotYet

\* sentinel2_id_parser(cd_id), of sentinel2.py and of utils.py
CodecParseId ==
    /\ cd_pc = "start"
    /\ cd_parsed' = sentinel2_id_parser(cd_id)
    /\ cd_parsed_utils' = utils_sentinel2_id_parser(cd_id)
    /\ cd_pc' = "parsed"
    /\ UNCHANGED <<cd_id, cd_band, cd_satellite, cd_filename, cd_decoded, cd_again>>
    /\ UNCHANGED <<dlvars, rsvars>>

\* get_band_filename(cd_id, cd_band, '.jp2', add_s2l2a_suffix), the suffix
\* added for the L2A family as get_s3paths_single_url does (lines 152-157)
CodecEncode ==
    /\ cd_pc = "parsed"
    /\ cd_filename' = get_band_filename(cd_id, cd_band, EXT_JP2, cd_satellite = S2L2A_NAME)
    /\ cd_pc' = "encoded"
    /\ UNCHANGED <<cd_id, cd_band, cd_satellite, cd_parsed, cd_parsed_utils, cd_decoded, cd_again>>
    /\ UNCHANGED <<dlvars, rsvars>>

\* parse_band_filename(filename, cd_satellite)
CodecDecode ==
    /\ cd_pc = "encoded"
    /\ cd_filename.ok
    /\ cd_decoded' = parse_band_filename(cd_filename.val, cd_satellite)
    /\ cd_pc' = "decoded"
    /\ UNCHANGED <<cd_id, cd_band, cd_satellite, cd_parsed, cd_parsed_utils, cd_filename, cd_again>>
    /\ UNCHANGED <<dlvars, rsvars>>

\* get_band_filename again, with the band and the extension the parsing gave
CodecReencode ==
    /\ cd_pc = "decoded"
    /\ cd_decoded.ok
    /\ cd_again' = get_band_filename(cd_id, cd_decoded.val.band, cd_decoded.val.ext,
                                     cd_satellite = S2L2A_NAME)
    /\ cd_pc' = "reencoded"
    /\ UNCHANGED <<cd_id, cd_band, cd_satellite, cd_parsed, cd_parsed_utils, cd_filename, cd_decoded>>
    /\ UNCHANGED <<dlvars, rsvars>>

CdNext ==
    \/ CodecParseId
    \/ CodecEncode
    \/ CodecDecode
    \/ CodecReencode

CdIdle ==
    /\ cd_id = <<>> /\ cd_band = <<>> /\ cd_satellite = S2L1C_NAME /\ cd_pc = "idle"
    /\ cd_parsed = NotYet /\ cd_parsed_utils = NotYet
    /\ cd_filename = NotYet /\ cd_decoded = NotYet /\ cd_again = NotYet

DlIdle ==
    /\ s3_paths = <<>> /\ download_filepaths = <<>> /\ overwrite = FALSE
    /\ files = <<>> /\ dirs = {} /\ fs0 = [files |-> <<>>, dirs |-> {}]
    /\ dl_pc = "idle" /\ dl_error = "None" /\ tuples = <<>> /\ work = <<>>
    /\ yielded = <<>> /\ download_successes = <<>>

RsIdle ==
    /\ s3urls = <<>> /\ bands = <<>> /\ satellite = S2L1C_NAME /\ njobs = 1
    /\ store = {} /\ rs_pc = "idle" /\ rs_error = "None" /\ unique_s3urls = <<>>
    /\ rwork = <<>> /\ ryielded = <<>> /\ list_of_tuple_of_lists = <<>>
    /\ rs_result = NoResult /\ n_invoked = [u \in Urls |-> 0]

\* the download batch
Init == DlInit /\ RsIdle /\ CdIdle

Next == DlNext

Spec == Init /\ [][Next]_vars

\* the download batch with more items than the pool has workers: every item has
\* the same destination
InitPool ==
    /\ \E n \in 0..MaxBatch, d \in Dests :
         /\ s3_paths = [i \in 1..n |-> S3Path(i)]
         /\ download_filepaths = [i \in 1..n |-> d]
    /\ overwrite \in BOOLEAN
    /\ \E fs \in Filesystems : files = fs.files /\ dirs = fs.dirs /\ fs0 = fs
    /\ dl_pc = "call"
    /\ dl_error = "None"
    /\ tuples = <<>>
    /\ work = <<>>
    /\ yielded = <<>>
    /\ download_successes = <<>>
    /\ RsIdle /\ CdIdle

SpecPool == InitPool /\ [][Next]_vars

\* a batch one item larger than the pool at most, to 'd/b' or to 'a', on an empty
\* filesystem and with overwrite false, the
\* main process and the pool workers being scheduled and every transfer ending
\* (by returning or by raising): while some step of the batch can be taken, one
\* is taken.  Fair scheduling of each worker implies it.
InitDrain ==
    /\ InitPool
    /\ Len(s3_paths) <= MaxDrain
    /\ files = <<>>
    /\ ~overwrite
    /\ \A i \in 1..Len(download_filepaths) : download_filepaths[i] # Dest_da

SpecDrain == InitDrain /\ [][Next]_vars /\ WF_vars(Next)

\* the path resolution
InitResolve == RsInit /\ DlIdle /\ CdIdle

SpecResolve == InitResolve /\ [][RsNext]_vars

\* the codec
InitCodec == CdInit /\ DlIdle /\ RsIdle

SpecCodec == InitCodec /\ [][CdNext]_vars

(***************************************************************************)
(* Properties of the download batch (specification Spec).                  *)
(***************************************************************************)
Items == 1..Len(work)

\* the four cases of one download, from what download_s3_file saw and did
Outcome4(i) ==
    IF work[i].exc # "None" THEN "failed"
    ELSE IF work[i].file_exists /\ ~overwrite THEN "skipped-already-present"
    ELSE IF work[i].file_exists THEN "success-after-overwrite"
    ELSE "success"

\* C1: an error raised while an item is downloaded (by the transfer, or by the
\* creation of its folder) is caught in that item's unit of work and becomes the
\* outcome False of that item only; download_s3_files raises for no item (only
\* for mismatched lengths), and when it returns every item has been run and
\* has its own outcome, True for each item that met no error.
C1_FailureIsolated ==
    /\ \A i \in Items :
         work[i].pc = "done" =>
           /\ work[i].ret.kind = "return"
           /\ work[i].ret.value = (work[i].exc = "None")
    /\ dl_pc = "raised" => (Len(s3_paths) # Len(download_filepaths) /\ work = <<>>)
    /\ dl_pc = "returned" =>
           /\ Len(download_successes) = Len(tuples)
           /\ \A i \in Items :
                /\ work[i].pc = "done"
                /\ download_successes[i] = (work[i].exc = "None")

C1_Witness ==
    /\ dl_pc = "returned"
    /\ \E i, j \in Items :
         /\ i < j
         /\ work[i].exc = "ClientError" /\ download_successes[i] = FALSE
         /\ work[j].exc = "None" /\ work[j].transfers = 1 /\ download_successes[j] = TRUE

\* C2: the list download_s3_files builds is aligned with its input: entry i is
\* the outcome of the unit of work of (s3_paths[i], download_filepaths[i]),
\* whatever the order the workers finish in, and the returned list is as long
\* as the input.
C2_OutcomesAligned ==
    /\ Len(download_successes) <= Len(tuples)
    /\ \A i \in 1..Len(tuples) : tuples[i] = <<s3_paths[i], download_filepaths[i]>>
    /\ \A i \in 1..Len(download_successes) :
         /\ work[i].pc = "done"
         /\ download_successes[i] = work[i].ret.value
         /\ download_successes[i] => os_path_exists(download_filepaths[i], files, dirs)
         /\ ~download_successes[i] => work[i].exc # "None"
    /\ dl_pc = "returned" =>
         /\ Len(download_successes) = Len(s3_paths)
         /\ Len(download_successes) = Len(download_filepaths)

C2_Witness ==
    /\ dl_pc = "returned"
    /\ download_successes = <<FALSE, TRUE, FALSE>>
    /\ work[1].exc = "ClientError"
    /\ work[3].exc = "OSError"

\* C3: a download that finds its destination present, with overwrite false,
\* makes no transfer and leaves every file as it is; all it may do is create
\* the destination's folder (and its ancestors).
C3_SkipStep(i) ==
    /\ (/\ dl_pc = "pool"
        /\ work[i].pc = "makedirs"
        /\ work'[i].pc # "makedirs"
        /\ download_filepaths[i] \in DOMAIN files
        /\ ~overwrite)
       => /\ files' = files
          /\ dirs' = dirs
          /\ work'[i].pc = "done"
          /\ work'[i].file_exists
          /\ work'[i].transfers = 0
          /\ work'[i].ret.value = TRUE
    /\ (/\ dl_pc = "pool"
        /\ work[i].pc = "taken"
        /\ work'[i].pc # "taken")
       => /\ files' = files
          /\ dirs' \subseteq dirs \cup makedirs_dirs(os_path_split(download_filepaths[i])[1])
          /\ work'[i].transfers = 0

C3_NoTransferWhenPresent == [][\A i \in Items : C3_SkipStep(i)]_vars

C3_Witness ==
    /\ ~overwrite
    /\ \E i \in Items :
         /\ work[i].pc = "done"
         /\ work[i].file_exists
         /\ work[i].transfers = 0
         /\ download_filepaths[i] = Dest_da
         /\ files[Dest_da] = 0

\* C4 as stated: the outcome reported for an item tells the four cases apart
\* (two items of a batch that fall in different cases are reported differently;
\* with overwrite false an entry already present is not reported as a success).
C4_FourOutcomesReported ==
    \A i, j \in 1..Len(download_successes) :
        Outcome4(i) # Outcome4(j) => download_successes[i] # download_successes[j]

\* C4, amended: the outcome reported for an item is a boolean that tells two
\* cases apart: False when the download raised an error, True in the three other
\* cases (skipped because present, downloaded, downloaded over an existing
\* file), which are reported alike.
C4_TwoOutcomesReported ==
    \A i \in 1..Len(download_successes) :
        /\ download_successes[i] = (Outcome4(i) # "failed")
        /\ Outcome4(i) = "skipped-already-present" => work[i].transfers = 0
        /\ Outcome4(i) \in {"success", "success-after-overwrite"} =>
              /\ work[i].transfers = 1
              /\ download_filepaths[i] \in DOMAIN files

C4_Witness ==
    /\ dl_pc = "returned"
    /\ \E i, j, k \in 1..Len(download_successes) :
         /\ Outcome4(i) = "skipped-already-present" /\ download_successes[i]
         /\ Outcome4(j) = "success" /\ download_successes[j]
         /\ Outcome4(k) = "failed" /\ ~download_successes[k]

\* C9: with s3_paths and download_filepaths of different lengths
\* download_s3_files raises ValueError before anything is handed to the pool:
\* no unit of work exists, no folder is created and no file is written.
C9_MismatchRaisesBeforeDispatch ==
    Len(s3_paths) # Len(download_filepaths) =>
        /\ dl_pc \in {"call", "raised"}
        /\ dl_pc = "raised" => dl_error = "ValueError"
        /\ tuples = <<>>
        /\ work = <<>>
        /\ yielded = <<>>
        /\ download_successes = <<>>
        /\ files = fs0.files
        /\ dirs = fs0.dirs

C9_Witness ==
    /\ dl_pc = "raised"
    /\ dl_error = "ValueError"
    /\ Len(s3_paths) = 2
    /\ Len(download_filepaths) = 1

(***************************************************************************)
(* Properties of the path resolution (specification SpecResolve).          *)
(***************************************************************************)
Tasks == 1..Len(rwork)

Returned(t) == rwork[t].pc = "done" /\ rwork[t].ret.ok

Failed(t) == rwork[t].pc = "done" /\ ~rwork[t].ret.ok

\* the band set of the declared family
FamilyBands == IF satellite = S2L1C_NAME THEN Range(S2L1C_ALL) ELSE Range(S2L2A_ALL)

UnsupportedBandRequested ==
    /\ satellite \in {S2L1C_NAME, S2L2A_NAME}
    /\ \E b \in Range(bands) : b \notin FamilyBands

\* C5: when a requested band is not in the band set of the declared family, a
\* call of get_s3paths_single_url ends by raising ValueError, returns nothing,
\* and has requested no listing of the store.
C5_BandCheckBeforeListing ==
    UnsupportedBandRequested =>
        /\ \A t \in Tasks :
             rwork[t].pc \notin {"queued", "taken"} =>
               /\ rwork[t].pc = "done"
               /\ ~rwork[t].ret.ok
               /\ rwork[t].ret.exc = "ValueError"
               /\ rwork[t].ret.val = <<>>
               /\ rwork[t].list_calls = 0
        /\ s3urls # <<>> => rs_result = NoResult

C5_Witness ==
    /\ UnsupportedBandRequested
    /\ bands = <<B02, B10>>
    /\ \E t \in Tasks :
         /\ unique_s3urls[t] = Url1
         /\ Failed(t)
         /\ rwork[t].ret.exc = "ValueError"
         /\ rwork[t].list_calls = 0

\* the concatenation of the tasks' results, in the order f
RECURSIVE ConcatResults(_, _)
ConcatResults(f, field) ==
    IF f = <<>> THEN <<>>
    ELSE (IF field = "s3paths" THEN rwork[Head(f)].ret.val.s3paths
          ELSE rwork[Head(f)].ret.val.download_filepaths)
         \o ConcatResults(Tail(f), field)

\* C6: when get_s3paths_single_url returns, its two lists have the same length
\* and download_filepaths[i] is the destination made from s3paths[i], whatever
\* the listing held; what get_s3paths returns is the results of the urls one
\* after the other, each in the order its call produced it, so that the two
\* flattened lists are aligned too.
C6_ListsAligned ==
    /\ \A t \in Tasks :
         Returned(t) =>
           LET r      == rwork[t].ret.val
               folder == s3url_to_download_folderpath(unique_s3urls[t], ROOT_FOLDERPATH).val
           IN  /\ Len(r.s3paths) = Len(r.download_filepaths)
               /\ \A i \in 1..Len(r.s3paths) :
                    download_filepath_of(r.s3paths[i], folder, satellite)
                       = Ok(<<r.download_filepaths[i]>>)
    /\ rs_result.some =>
         /\ Len(rs_result.s3paths) = Len(rs_result.download_filepaths)
         /\ \E f \in unique_orders([t \in Tasks |-> t]) :
              /\ rs_result.s3paths = ConcatResults(f, "s3paths")
              /\ rs_result.download_filepaths = ConcatResults(f, "download_filepaths")

C6_Witness ==
    /\ rs_result.some
    /\ Len(unique_s3urls) = 2
    /\ Len(rs_result.s3paths) >= 5
    /\ \E i, j \in 1..Len(rs_result.s3paths) :
         /\ rs_result.s3paths[i].prefix = Key1_MTD_g
         /\ rs_result.s3paths[j].prefix = Key2_B02

\* C7 as stated: once get_s3paths has ended, get_s3paths_single_url has been
\* called exactly once for each distinct url of s3urls.
C7_EachUrlResolvedExactlyOnce ==
    rs_pc \in {"returned", "raised"} => \A u \in Range(s3urls) : n_invoked[u] = 1

\* C7, amended: the urls handed to the pool are the distinct urls of s3urls,
\* each once; get_s3paths_single_url is called at most once for each of them
\* (and for no other), exactly once for each when get_s3paths returns, and when
\* get_s3paths raises, exactly once for each url up to the one whose failure it
\* raises (a url behind it may not have been called at all).
C7_EachUrlResolvedAtMostOnce ==
    /\ \A u \in Urls : n_invoked[u] <= 1
    /\ \A u \in Urls \ Range(s3urls) : n_invoked[u] = 0
    /\ rs_pc # "call" =>
         /\ Range(unique_s3urls) = Range(s3urls)
         /\ Len(unique_s3urls) = Cardinality(Range(s3urls))
    /\ rs_pc = "returned" => \A u \in Range(s3urls) : n_invoked[u] = 1
    /\ \A k \in Range(ryielded) : n_invoked[unique_s3urls[k]] = 1

C7_Witness ==
    /\ rs_pc = "returned"
    /\ s3urls = <<Url1, Url1>>
    /\ unique_s3urls = <<Url1>>
    /\ n_invoked[Url1] = 1

\* C8: a failure of the resolution of one url is raised by get_s3paths, which
\* then returns nothing: get_s3paths returns only when every url was resolved,
\* and then its lists hold every url's result.
C8_FailurePropagates ==
    /\ (\E t \in Tasks : Failed(t)) => rs_pc # "returned"
    /\ rs_pc # "returned" => rs_result = NoResult
    /\ rs_pc = "raised" =>
         /\ ryielded # <<>>
         /\ Failed(ryielded[Len(ryielded)])
         /\ rs_error = rwork[ryielded[Len(ryielded)]].ret.exc
    /\ rs_pc = "returned" =>
         /\ rs_result.some
         /\ \A t \in Tasks : Returned(t)
         /\ Len(list_of_tuple_of_lists) = Len(unique_s3urls)
         /\ Len(rs_result.s3paths) = Len(ConcatResults([t \in Tasks |-> t], "s3paths"))

C8_Witness ==
    /\ rs_pc = "raised"
    /\ rs_error = "ClientError"
    /\ rs_result = NoResult
    /\ Len(unique_s3urls) = 2
    /\ Returned(1) /\ rwork[1].ret.val.s3paths # <<>>
    /\ Failed(2)

\* the listing a task was given, and the names the call looks for
ListedKeys(t) ==
    LET root == s3url_to_s3path(unique_s3urls[t]).val
        l    == objects_filter(store, root.bucket, root.prefix)
    IN  [i \in 1..Len(l) |-> l[i].prefix]

Filename(key) == SubSeq(key, rfind1(key, "/") + 1, Len(key))

\* the filenames of the requested bands of the product of url t
BandFilenames(t) ==
    LET id == parse_s3url(unique_s3urls[t]).val.id.v
    IN  {get_band_filename(id, b, EXT_JP2, satellite = S2L2A_NAME).val : b \in Range(bands)}

IsBandFile(t, key) == Filename(key) \in BandFilenames(t)

IsMetadataFile(key) == Filename(key) = MTD_TL_XML

EntryKeys(t) == [i \in 1..Len(rwork[t].ret.val.s3paths) |-> rwork[t].ret.val.s3paths[i].prefix]

\* s is t with some elements left out
RECURSIVE IsSubsequence(_, _)
IsSubsequence(s, t) ==
    IF s = <<>> THEN TRUE
    ELSE IF t = <<>> THEN FALSE
    ELSE IF Head(s) = Head(t) THEN IsSubsequence(Tail(s), Tail(t))
    ELSE IsSubsequence(s, Tail(t))

\* C10 as stated: the result of get_s3paths_single_url has an entry for each
\* listed key that is the file of a requested band, exactly one metadata entry,
\* and no entry for a key that is neither.
C10_OneMetadataEntryPerProduct ==
    \A t \in Tasks :
        Returned(t) =>
          /\ \A k \in Range(ListedKeys(t)) : IsBandFile(t, k) => k \in Range(EntryKeys(t))
          /\ Cardinality({i \in 1..Len(EntryKeys(t)) : IsMetadataFile(EntryKeys(t)[i])}) = 1
          /\ \A k \in Range(EntryKeys(t)) : IsBandFile(t, k) \/ IsMetadataFile(k)

\* entries are the keys of listed that contain one of the names looked for,
\* in the order of listed
MatchedKeysOnly(entries, listed, band_names, filenames) ==
    LET names   == band_names \cup {MTD_TL_XML}
        matches == {k \in Range(listed) : \E n \in names : contains(k, n)}
    IN  /\ Range(entries) = matches
        /\ Len(entries) = Cardinality(matches)
        /\ IsSubsequence(entries, listed)
        /\ \A k \in Range(listed) :
             (Filename(k) \in band_names \/ IsMetadataFile(k)) => k \in Range(entries)
        /\ Cardinality({i \in 1..Len(entries) : contains(entries[i], MTD_TL_XML)})
             = Cardinality({k \in Range(listed) : contains(k, MTD_TL_XML)})
        /\ Len(SelectSeq(filenames, LAMBDA n : n = MTD_TL_XML)) = 1

\* C10, amended: when get_s3paths_single_url returns, its result has one entry per listed
\* key that contains the filename of a requested band or 'MTD_TL.xml', in the
\* order of the listing, and no entry for any other key: so an entry for each
\* key that is the file of a requested band or a metadata file, as many
\* metadata entries as the listing has keys containing 'MTD_TL.xml' (none,
\* one or several), and exactly one metadata name among the names looked for.
C10_OneEntryPerMatchedKey ==
    [][\A t \in Tasks :
          (rwork[t].pc = "listing" /\ Returned(t)') =>
             MatchedKeysOnly(EntryKeys(t)', ListedKeys(t), BandFilenames(t),
                             rwork[t].filenames)]_vars

C10_Witness ==
    \E t \in Tasks :
        /\ Returned(t)
        /\ unique_s3urls[t] = Url1
        /\ bands = <<B02, B03>>
        /\ Key1_MTD_g \in Range(EntryKeys(t))
        /\ Key1_MTD_h \in Range(EntryKeys(t))
        /\ Key1_B02 \in Range(EntryKeys(t))
        /\ Key1_XB03 \in Range(EntryKeys(t))
        /\ Key1_MSI \notin Range(EntryKeys(t))

\* the directory of the product of url u: the root folder, then the url without
\* 's3://EODATA/' and without '.SAFE' or '.SAFE/'
ProductDirectory(u) ==
    LET tail == IF u[Len(u)] = "/" THEN Len(VALID_S3URL_END) ELSE Len(EXT_SAFE)
    IN  ROOT_FOLDERPATH \o <<"/">> \o SubSeq(u, Len(VALID_S3URL_START) + 1, Len(u) - tail)

\* C11: every destination of one call of get_s3paths_single_url is a file
\* directly in the one directory of the product (root folder, then the segments
\* of the url between 's3://EODATA/' and '.SAFE' or '.SAFE/'): the key of a
\* band file goes to '<BAND>.jp2' there, BAND a requested band, and a metadata
\* key keeps its filename.
C11_FlatProductDirectory ==
    \A t \in Tasks :
        Returned(t) =>
          LET r   == rwork[t].ret.val
              dir == ProductDirectory(unique_s3urls[t])
          IN  \A i \in 1..Len(r.s3paths) :
                LET key  == r.s3paths[i].prefix
                    dest == r.download_filepaths[i]
                IN  /\ os_path_split(dest)[1] = dir
                    /\ ~contains(os_path_split(dest)[2], <<"/">>)
                    /\ contains(key, EXT_JP2) =>
                         \E b \in Range(bands) :
                            /\ contains(Filename(key), <<"_">> \o b)
                            /\ dest = dir \o <<"/">> \o b \o EXT_JP2
                    /\ IsMetadataFile(key) => dest = dir \o <<"/">> \o MTD_TL_XML

C11_Witness ==
    /\ satellite = S2L2A_NAME
    /\ \E t \in Tasks :
         /\ Returned(t)
         /\ unique_s3urls[t] = Url1
         /\ \E i, j \in 1..Len(rwork[t].ret.val.s3paths) :
              /\ rwork[t].ret.val.s3paths[i].prefix = Key1_B02_10m
              /\ rwork[t].ret.val.download_filepaths[i]
                   = ROOT_FOLDERPATH \o <<"/">> \o P_DIR \o ID1 \o <<"/">> \o B02 \o EXT_JP2
              /\ rwork[t].ret.val.s3paths[j].prefix = Key1_MTD_g
              /\ rwork[t].ret.val.download_filepaths[j]
                   = ROOT_FOLDERPATH \o <<"/">> \o P_DIR \o ID1 \o <<"/">> \o MTD_TL_XML

(***************************************************************************)
(* Properties of the codec (specification SpecCodec).                      *)
(***************************************************************************)
\* an identifier of seven fields, with no '.' in the two fields a band filename
\* is made of (as in the compact naming convention: letters and digits)
ValidIdentifier ==
    /\ cd_parsed.ok
    /\ ~contains(cd_parsed.val.tile_number_field, <<".">>)
    /\ ~contains(cd_parsed.val.datatake_sensing_startdate, <<".">>)

KnownBand ==
    \/ cd_satellite = S2L1C_NAME /\ cd_band \in Range(S2L1C_ALL)
    \/ cd_satellite = S2L2A_NAME /\ cd_band \in Range(S2L2A_ALL)

Encoded == cd_pc \in {"encoded", "decoded", "reencoded"}

Decoded == cd_pc \in {"decoded", "reencoded"}

\* C12: for a valid identifier and a band of the family, the filename
\* get_band_filename makes (L1C: tile_date_band.jp2, L2A: with '_10m' or '_20m'
\* before the extension) is parsed by parse_band_filename, with the same
\* family, into the identifier's tile and sensing start, the same band and
\* the extension, and get_band_filename gives the same filename again for the
\* parsed band and extension.
C12_CodecRoundTrip ==
    (ValidIdentifier /\ KnownBand) =>
        /\ Encoded =>
             /\ cd_filename.ok
             /\ LET stem == cd_parsed.val.tile_number_field \o <<"_">>
                              \o cd_parsed.val.datatake_sensing_startdate \o <<"_">> \o cd_band
                IN  IF cd_satellite = S2L1C_NAME
                    THEN cd_filename.val = stem \o EXT_JP2
                    ELSE cd_filename.val \in {stem \o SUFFIX_10m \o EXT_JP2,
                                              stem \o SUFFIX_20m \o EXT_JP2}
        /\ Decoded =>
             /\ cd_decoded.ok
             /\ cd_decoded.val.tile_number_field = cd_parsed.val.tile_number_field
             /\ cd_decoded.val.datatake_sensing_startdate
                   = cd_parsed.val.datatake_sensing_startdate
             /\ cd_decoded.val.band = cd_band
             /\ cd_decoded.val.ext = EXT_JP2
        /\ cd_pc = "reencoded" => cd_again = cd_filename

C12_Witness ==
    /\ cd_pc = "reencoded"
    /\ cd_id = ID_SAFE
    /\ cd_satellite = S2L2A_NAME
    /\ cd_band = SCL
    /\ cd_filename.val = <<"T","_","D","_","S","C","L","_","2","0","m",".","j","p","2">>
    /\ cd_decoded.val.band = SCL
    /\ cd_again = cd_filename

\* cd_id without the suffix '.SAFE'
Stripped ==
    IF Len(cd_id) >= Len(EXT_SAFE)
       /\ SubSeq(cd_id, Len(cd_id) - Len(EXT_SAFE) + 1, Len(cd_id)) = EXT_SAFE
    THEN SubSeq(cd_id, 1, Len(cd_id) - Len(EXT_SAFE))
    ELSE cd_id

\* Stripped is seven fields separated by '_'
SevenFields == Cardinality({i \in 1..Len(Stripped) : Stripped[i] = "_"}) = 6

\* r is the record of the seven fields of Stripped, in order
IsFieldsOfStripped(r) ==
    /\ r.mission_identifier \o <<"_">> \o r.product_level \o <<"_">>
         \o r.datatake_sensing_startdate \o <<"_">> \o r.processing_baseline_number
         \o <<"_">> \o r.relative_orbit_number \o <<"_">> \o r.tile_number_field
         \o <<"_">> \o r.product_discriminator = Stripped
    /\ \A f \in {r.mission_identifier, r.product_level, r.datatake_sensing_startdate,
                 r.processing_baseline_number, r.relative_orbit_number,
                 r.tile_number_field, r.product_discriminator} : ~contains(f, <<"_">>)

\* the part of C13 that holds, for the parser of sentinel2.py alone: it returns
\* exactly when the identifier, without its suffix '.SAFE', is seven fields
\* separated by '_', and then returns the seven fields in order; with any other
\* number of fields it raises ValueError and returns nothing.
Sentinel2ParserSevenFields ==
    cd_pc # "start" =>
        /\ cd_parsed.ok <=> SevenFields
        /\ cd_parsed.ok => IsFieldsOfStripped(cd_parsed.val)
        /\ ~cd_parsed.ok => cd_parsed = Raise("ValueError")

\* C13: the product-identifier parser (sentinel2.sentinel2_id_parser and
\* utils.sentinel2_id_parser) returns exactly when the identifier, without its
\* suffix '.SAFE', is seven fields separated by '_', and then returns the seven
\* fields in order (mission, level, sensing start, baseline, orbit, tile,
\* discriminator); with any other number of fields it raises ValueError and
\* returns nothing.  The parser of utils.py breaks it: its
\* replace('.SAFE', '') removes every '.SAFE', not the suffix alone, so the
\* fields it returns for 'S_L_D_N_R_T.SAFE_X.SAFE' are not those of
\* 'S_L_D_N_R_T.SAFE_X'.
C13_SevenFieldsExactly ==
    /\ Sentinel2ParserSevenFields
    /\ cd_pc # "start" =>
        /\ cd_parsed_utils.ok <=> SevenFields
        /\ cd_parsed_utils.ok => IsFieldsOfStripped(cd_parsed_utils.val)
        /\ ~cd_parsed_utils.ok => cd_parsed_utils = Raise("ValueError")

\* the identifier 'S_L_D_N_R_T.SAFE_X.SAFE' has been parsed: sentinel2.py gives
\* the tile 'T.SAFE', utils.py the tile 'T'
C13_Witness ==
    /\ cd_pc = "parsed"
    /\ cd_id = ID_inner
    /\ SevenFields
    /\ cd_parsed.ok /\ cd_parsed_utils.ok
    /\ cd_parsed.val.tile_number_field = <<"T", ".", "S", "A", "F", "E">>
    /\ cd_parsed_utils.val.tile_number_field = <<"T">>
    /\ cd_parsed_utils.val.product_discriminator = <<"X">>

\* C17: every band of Bands.S2L2A.ALL is in exactly one of the two lists of
\* get_band_filename ('_20m' or '_10m'), so for the L2A family a band that
\* passes the check against Bands.S2L2A.ALL never makes get_band_filename
\* raise NotImplementedError: its filename carries the suffix of its list.
C17_L2ABandsClassified ==
    /\ \A b \in Range(S2L2A_ALL) : (b \in Bands_20m) # (b \in Bands_10m)
    /\ (cd_satellite = S2L2A_NAME /\ invalid_bands(<<cd_band>>, S2L2A_ALL) = {}) =>
          /\ Encoded =>
               /\ cd_filename.exc # "NotImplementedError"
               /\ cd_filename.ok =>
                    endswith(cd_filename.val,
                             (IF cd_band \in Bands_20m THEN SUFFIX_20m ELSE SUFFIX_10m)
                                \o EXT_JP2)
          /\ cd_pc = "reencoded" => cd_again.exc # "NotImplementedError"

C17_Witness ==
    /\ cd_pc = "encoded"
    /\ cd_satellite = S2L2A_NAME
    /\ cd_band = B8A
    /\ cd_id = ID1
    /\ cd_filename = Ok(<<"T","_","D","_","B","8","A","_","2","0","m",".","j","p","2">>)

(***************************************************************************)
(* More properties of the download batch (specification Spec).             *)
(***************************************************************************)
\* the step in which the transfer of item i ends
TransferEnds(i) == work[i].pc = "transfer" /\ work'[i].pc = "done"

\* every downloaded file holds the object of an item that has this path as its
\* destination and has transferred
WrittenByOwnItem(fls, wrk) ==
    \A p \in DOMAIN fls :
        \/ p \in DOMAIN fs0.files /\ fls[p] = fs0.files[p]
        \/ \E i \in 1..Len(wrk) :
              /\ download_filepaths[i] = p
              /\ fls[p] = s3_paths[i]
              /\ wrk[i].transfers = 1
              /\ wrk[i].exc = "None"

\* C14: nothing orders two items that share a destination: the existence
\* check of one and the transfer of the other are separate steps, and a
\* transfer that succeeds leaves its object at the destination whatever is
\* there (the last writer wins), so with overwrite false both may find the
\* file absent and both transfer; a transfer writes no path but its own
\* destination, so items with distinct destinations never write the same file.
C14_LastWriterWins ==
    [][/\ \A i \in Items :
            TransferEnds(i) =>
              /\ \A p \in DOMAIN files :
                    p # download_filepaths[i] => (p \in DOMAIN files' /\ files'[p] = files[p])
              /\ DOMAIN files' \subseteq DOMAIN files \cup {download_filepaths[i]}
              /\ work'[i].exc = "None" =>
                    (download_filepaths[i] \in DOMAIN files'
                       /\ files'[download_filepaths[i]] = s3_paths[i])
              /\ work'[i].exc # "None" => files' = files
       /\ (\A i \in Items : ~TransferEnds(i)) => files' = files
       /\ WrittenByOwnItem(files', work')]_vars

C14_Witness ==
    /\ ~overwrite
    /\ dl_pc = "returned"
    /\ Len(work) >= 2
    /\ download_filepaths[1] = Dest_db
    /\ download_filepaths[2] = Dest_db
    /\ ~work[1].file_exists /\ ~work[2].file_exists
    /\ work[1].transfers = 1 /\ work[2].transfers = 1
    /\ work[1].exc = "None" /\ work[2].exc = "None"
    /\ files[Dest_db] = s3_paths[1]
    /\ download_successes[1] /\ download_successes[2]

\* ---------------------------------------------------------------------------
\* C15: at every moment of a download_s3_files batch, the number of downloads
\* in progress (items whose unit of work has started and has not yet produced
\* its outcome) is at most the pool size, which is 4
\* (MAX_CONCURRENT_CONNECTIONS), whatever the number of items of the batch.
C15_AtMostFourInProgress ==
    /\ MAX_CONCURRENT_CONNECTIONS = 4
    /\ Cardinality(InProgress) <= 4

\* four transfers are in progress and a fifth item waits for a worker
C15_Witness ==
    /\ dl_pc = "pool"
    /\ Len(work) >= 5
    /\ Cardinality(InProgress) = 4
    /\ \A i \in InProgress : work[i].pc = "transfer"
    /\ \E i \in 1..Len(work) : work[i].pc = "queued"

\* ---------------------------------------------------------------------------
\* C16: if every individual transfer eventually returns or raises then, the
\* pool workers being scheduled fairly, download_s3_files eventually returns,
\* and when it returns every input item has been processed and has exactly
\* one outcome: the batch drains and no item is left without an outcome.
Drained ==
    /\ dl_pc = "returned"
    /\ dl_error = "None"
    /\ Len(work) = Len(s3_paths)
    /\ Len(download_successes) = Len(s3_paths)
    /\ yielded = [i \in 1..Len(s3_paths) |-> i]
    /\ \A i \in 1..Len(s3_paths) :
          /\ work[i].pc = "done"
          /\ work[i].ret.kind = "return"
          /\ download_successes[i] = work[i].ret.value

C16_BatchDrains == <>[]Drained

\* a batch larger than the pool has returned, with a transfer that raised, a
\* transfer that succeeded and as many outcomes as items
C16_Witness ==
    /\ Drained
    /\ Len(s3_paths) > MAX_CONCURRENT_CONNECTIONS
    /\ \E i \in 1..Len(work) : work[i].exc = "ClientError" /\ ~download_successes[i]
    /\ \E i \in 1..Len(work) : work[i].transfers = 1 /\ download_successes[i]

====
